---- MODULE Spec2Model ----
(***************************************************************************)
(* A model of aclient.AClient: a client that queues HTTP calls, runs the   *)
(* queued calls concurrently on one event loop and hands back the results. *)
(*                                                                         *)
(* Python values are records tagged by their type: [dict |-> f],           *)
(* [str |-> s], [bytes |-> b], [list |-> l], [none |-> TRUE].  A dict is a *)
(* function from its keys; mutable dicts that can be reached through more  *)
(* than one reference live in the variable heap and are named by a         *)
(* reference.  Text (str) is a TLA+ string where it is only compared or    *)
(* concatenated, and a sequence of characters where it is cut (URLs).      *)
(* Response bodies are sequences of byte values.                           *)
(***************************************************************************)
EXTENDS Integers, Sequences, FiniteSets, TLC

(***************************************************************************)
(* Bounds of the model and the input sets the operations draw from.        *)
(***************************************************************************)
\* total number of enqueue calls over one behaviour
MaxCalls == 3

\* the client objects a program creates
Clients == {"c1", "c2"}

\* dict objects owned by the caller and passed as "headers" to enqueue calls
CallerDicts == {"d1", "d2"}

\* the class attribute AClient.headers_default is one dict object
ClassDict == "AClient.headers_default"

Refs == {ClassDict} \cup CallerDicts

UserAgentDefault == "Mozilla/5.0"

headers_default == [k \in {"User-Agent"} |-> UserAgentDefault]

CallerDictInit(d) ==
    IF d = "d1" THEN [k \in {"X-A"} |-> "a1"]
    ELSE [k \in {"User-Agent", "X-B"} |-> IF k = "X-B" THEN "b2" ELSE "custom-ua"]

encoding_default == "utf-8"

methods == <<"get", "post", "put", "patch", "delete">>

\* the retry limit the specification names; the source has no retry loop
retry == 3

(***************************************************************************)
(* Python values.                                                          *)
(***************************************************************************)
PyNone == [none |-> TRUE]
PyDict(d) == [dict |-> d]
PyStr(s) == [str |-> s]
PyBytes(b) == [bytes |-> b]
PyList(l) == [list |-> l]

IsNone(v) == DOMAIN v = {"none"}
IsDict(v) == DOMAIN v = {"dict"}
IsList(v) == DOMAIN v = {"list"}

PyInt(n) == [int |-> n]
\* a str whose characters matter (a URL), as the sequence of its characters
PyChars(s) == [chars |-> s]

\* isinstance(v, str)
IsStr(v) == DOMAIN v \in {{"str"}, {"chars"}}
\* isinstance(v, dict), for a dict value or a reference to a dict object
IsDictArg(v) == DOMAIN v \in {{"dict"}, {"ref"}}

EmptyDict == <<>>

\* the truth value of a value that is no reference
Truthy(v) ==
    IF "none" \in DOMAIN v THEN FALSE
    ELSE IF "str" \in DOMAIN v THEN v.str # ""
    ELSE IF "chars" \in DOMAIN v THEN v.chars # <<>>
    ELSE IF "int" \in DOMAIN v THEN v.int # 0
    ELSE IF "list" \in DOMAIN v THEN v.list # <<>>
    ELSE IF "dict" \in DOMAIN v THEN DOMAIN v.dict # {}
    ELSE TRUE

\* the text an f-string makes of a value
Format(v) ==
    IF "str" \in DOMAIN v THEN v.str
    ELSE IF "int" \in DOMAIN v THEN ToString(v.int)
    ELSE "{}"

\* dict.update(b) on a dict a: the keys of both, b's value on a collision
Update(a, b) == [k \in (DOMAIN a) \cup (DOMAIN b) |-> IF k \in DOMAIN b THEN b[k] ELSE a[k]]

\* truth value of a dict or a string operand of "if"
TruthyDict(d) == DOMAIN d # {}
TruthyStr(s) == s # ""

\* {'error': msg}
ErrorResult(msg) == PyDict([error |-> msg])
IsErrorResult(v) == IsDict(v) /\ DOMAIN v.dict = {"error"}

(***************************************************************************)
(* str.rstrip('/'), str.lstrip('/') and _url_builder on character          *)
(* sequences.                                                              *)
(***************************************************************************)
RECURSIVE rstrip(_)
rstrip(s) ==
    IF s # <<>> /\ s[Len(s)] = "/" THEN rstrip(SubSeq(s, 1, Len(s) - 1)) ELSE s

RECURSIVE lstrip(_)
lstrip(s) ==
    IF s # <<>> /\ s[1] = "/" THEN lstrip(Tail(s)) ELSE s

\* the join with the path taken as it is
_url_builder_no_lstrip(url_start, url_end) == rstrip(url_start) \o <<"/">> \o url_end

_url_builder(url_start, url_end) == rstrip(url_start) \o <<"/">> \o lstrip(url_end)

(***************************************************************************)
(* The response decoder.  bytes.decode gives text, written [text |-> cs]   *)
(* with cs the code points; an operation that can raise gives [ok |-> v]   *)
(* or [exc |-> message].                                                   *)
(***************************************************************************)
\* the bodies of the model are ASCII bytes and the byte 255, which no UTF-8
\* text contains; latin-1 maps every byte to the code point of its value
decode(content, encoding) ==
    IF encoding = "utf-8" THEN
        IF \E i \in 1..Len(content) : content[i] > 127
        THEN [exc |-> "UnicodeDecodeError"]
        ELSE [ok |-> [text |-> content]]
    ELSE IF encoding = "latin-1" THEN [ok |-> [text |-> content]]
    ELSE [exc |-> "LookupError"]

\* json.loads on the texts of the model: {} and {"a":1} are JSON documents,
\* every other text of the model is not
json_loads(t) ==
    IF t.text = <<123, 125>> THEN [ok |-> PyDict(EmptyDict)]
    ELSE IF t.text = <<123, 34, 97, 34, 58, 49, 125>> THEN [ok |-> PyDict([a |-> 1])]
    ELSE [exc |-> "JSONDecodeError"]

\* response.charset or self.encoding_default
CharsetOr(charset, default) ==
    IF IsNone(charset) THEN default
    ELSE IF charset.str = "" THEN default ELSE charset.str

\* the decoder with every text decoded as encoding_default
_get_content_default_encoding(response, content) ==
    IF response.content_type = "application/json" THEN
        IF content # <<>> THEN
            LET d == decode(content, encoding_default)
            IN  IF "exc" \in DOMAIN d THEN d ELSE json_loads(d.ok)
        ELSE [ok |-> PyDict(EmptyDict)]
    ELSE IF response.content_type \in {"text/html", "text/plain"} THEN
        decode(content, encoding_default)
    ELSE [ok |-> PyBytes(content)]

_get_content(response, content) ==
    IF response.content_type = "application/json" THEN
        IF content # <<>> THEN
            LET d == decode(content, CharsetOr(response.charset, encoding_default))
            IN  IF "exc" \in DOMAIN d THEN d ELSE json_loads(d.ok)
        ELSE [ok |-> PyDict(EmptyDict)]
    ELSE IF response.content_type \in {"text/html", "text/plain"} THEN
        decode(content, CharsetOr(response.charset, encoding_default))
    ELSE [ok |-> PyBytes(content)]

(***************************************************************************)
(* One request.  What the network does with a request is a scenario:       *)
(*   fails     the number of attempts that end in a transport failure      *)
(*             (aiohttp.ClientError) before the server answers;            *)
(*   exc       the attempt that reaches the server raises an exception     *)
(*             that is no ClientError (e.g. a timeout);                    *)
(*   response  the server's answer.                                        *)
(***************************************************************************)
\* the bound check with its first comparison turned round
StatusIsErrorInverted(status) == 200 < status \/ status > 299

\* response.status > 299 or response.status < 200
StatusIsError(status) == status > 299 \/ status < 200

\* a request made through a fresh session, whatever the client's session is
SessionRequestFresh(session, scn) == scn

\* getattr(self._session, method)(...): a closed aiohttp session refuses the
\* request with RuntimeError("Session is closed") before anything is sent
SessionRequest(session, scn) ==
    IF session = "closed"
    THEN [closed |-> TRUE, fails |-> 0, exc |-> FALSE, response |-> scn.response]
    ELSE scn

\* the body of the try statement: one attempt
_request_try(scn) ==
    IF "closed" \in DOMAIN scn THEN
        [exc |-> "Session is closed", bodyRead |-> FALSE]
    ELSE IF scn.fails > 0 THEN
        [exc |-> "ClientError", bodyRead |-> FALSE]
    ELSE IF scn.exc THEN
        [exc |-> "TimeoutError", bodyRead |-> FALSE]
    ELSE IF StatusIsError(scn.response.status) THEN
        [exc |-> "", bodyRead |-> FALSE,
         val |-> ErrorResult("Response status " \o ToString(scn.response.status))]
    ELSE
        LET c == _get_content(scn.response, scn.response.body)
        IN  IF "exc" \in DOMAIN c
            THEN [exc |-> c.exc, bodyRead |-> TRUE]
            ELSE [exc |-> "", bodyRead |-> TRUE, val |-> c.ok]

\* a coroutine without the "except Exception" clause
_request_no_generic_except(scn) ==
    LET t == _request_try(scn)
    IN  IF t.exc = "" THEN [raise |-> "", val |-> t.val, bodyRead |-> t.bodyRead, attempts |-> 1]
        ELSE IF t.exc = "ClientError"
        THEN [raise |-> "", val |-> ErrorResult(t.exc), bodyRead |-> t.bodyRead, attempts |-> 1]
        ELSE [raise |-> t.exc, val |-> PyNone, bodyRead |-> t.bodyRead, attempts |-> 1]

\* the try statement with its two except clauses: the value the coroutine
\* returns (raise = "") or the exception it ends with
_request(scn) ==
    LET t == _request_try(scn)
    IN  IF t.exc = "" THEN [raise |-> "", val |-> t.val, bodyRead |-> t.bodyRead, attempts |-> 1]
        ELSE IF t.exc = "ClientError"
        THEN [raise |-> "", val |-> ErrorResult(t.exc), bodyRead |-> t.bodyRead, attempts |-> 1]
        ELSE [raise |-> "", val |-> ErrorResult(t.exc), bodyRead |-> t.bodyRead, attempts |-> 1]

\* the headers argument of a queued call: None, a reference to a caller's
\* dict, or a dict that only the call holds
NoHeaders == [none |-> TRUE]
RefHeaders(d) == [ref |-> d]
OwnHeaders(v) == [own |-> v]

\* the dict a headers argument stands for (None: no key)
Overrides(h, hd) ==
    IF "ref" \in DOMAIN hd THEN h[hd.ref]
    ELSE IF "own" \in DOMAIN hd THEN hd.own
    ELSE EmptyDict

\* session_header with the dict object updated in place instead of a copy
_request_headers_no_copy(h, self_headers, hd) ==
    LET merged == IF TruthyDict(Overrides(h, hd))
                  THEN Update(h[self_headers], Overrides(h, hd))
                  ELSE h[self_headers]
    IN  [sent |-> merged, heap |-> [h EXCEPT ![self_headers] = merged]]

\* session_header = copy.deepcopy(self._headers); if headers: update(headers)
_request_headers(h, self_headers, hd) ==
    LET copy == h[self_headers]
    IN  [sent |-> IF TruthyDict(Overrides(h, hd)) THEN Update(copy, Overrides(h, hd)) ELSE copy,
         heap |-> h]

(***************************************************************************)
(* _add_task with valid arguments: the token header and the queued         *)
(* coroutine.  headers is NoHeaders or a reference to a caller's dict,     *)
(* token is PyNone or a str.                                               *)
(***************************************************************************)
Bearer(token) == "Bearer " \o token

_add_task(h, method, url_start, url, params, headers, token, id) ==
    LET params1 == IF IsNone(params) THEN EmptyDict ELSE params.dict
        hasToken == Truthy(token)
        header_token == [k \in {"Authorization"} |-> Bearer(Format(token))]
        headers1 == IF ~hasToken THEN headers
                    ELSE IF "none" \in DOMAIN headers THEN OwnHeaders(header_token)
                    ELSE headers
        h1 == IF hasToken /\ "ref" \in DOMAIN headers
              THEN [h EXCEPT ![headers.ref] = Update(@, header_token)]
              ELSE h
    IN  [heap |-> h1,
         task |-> [id |-> id, method |-> method,
                   url |-> _url_builder(url_start, url),
                   params |-> params1, headers |-> headers1,
                   \* what the caller passed, for the statements about it
                   token |-> token,
                   passed |-> Overrides(h, headers)]]

(***************************************************************************)
(* The state.                                                              *)
(*   heap         the contents of the dict objects: the class attribute    *)
(*                headers_default and the caller's dicts                   *)
(*   constructed  the clients whose __init__ has returned                  *)
(*   _url_start, _headers, _tasks, _method   the fields of each client;    *)
(*                _headers is a reference to a dict object                 *)
(*   running      the client whose result() is running the event loop,     *)
(*                or "none"                                                *)
(*   calls        the coroutines of the running result(), in queue order   *)
(*   order        the positions of the finished coroutines, in the order   *)
(*                they finished                                            *)
(* History, for the statements about the program:                          *)
(*   ctorArg      the headers argument each client was constructed with    *)
(*   nextId       the number of the next enqueue call                      *)
(*   heap0        the dict objects as they were when result() was called   *)
(*   dispatched   the calls whose request was issued by a finished         *)
(*                result()                                                 *)
(*   last         the operation that finished last, with what it returned  *)
(* The session and the accessors:                                          *)
(*   _session     "open" or "closed": the aiohttp session of each client   *)
(*   held         the functions client.<attr> returned that the caller     *)
(*                still holds, each with the attribute it was got by       *)
(*   releases     how often each session's connector was released          *)
(*   issued       the calls an HTTP request was issued for, one entry per  *)
(*                request                                                  *)
(***************************************************************************)
VARIABLES heap, constructed, _url_start, _headers, _tasks, _method,
          running, calls, order, ctorArg, nextId, heap0, dispatched, last,
          _session, held, releases, issued

vars == <<heap, constructed, _url_start, _headers, _tasks, _method,
          running, calls, order, ctorArg, nextId, heap0, dispatched, last,
          _session, held, releases, issued>>

\* the state before any client exists, with l the value of last
InitWith(l) ==
    /\ heap = [d \in Refs |-> IF d = ClassDict THEN headers_default ELSE CallerDictInit(d)]
    /\ constructed = {}
    /\ _url_start = [c \in Clients |-> <<>>]
    /\ _headers = [c \in Clients |-> ClassDict]
    /\ _tasks = [c \in Clients |-> <<>>]
    /\ _method = [c \in Clients |-> "None"]
    /\ running = "none"
    /\ calls = <<>>
    /\ order = <<>>
    /\ ctorArg = [c \in Clients |-> PyNone]
    /\ nextId = 1
    /\ heap0 = heap
    /\ dispatched = {}
    /\ last = l
    /\ _session = [c \in Clients |-> "open"]
    /\ held = {}
    /\ releases = [c \in Clients |-> 0]
    /\ issued = <<>>

Init == InitWith([op |-> "none"])

(***************************************************************************)
(* AClient(url_start, headers).  A headers argument that is true and no    *)
(* dict makes __init__ raise TypeError: no client comes to exist.          *)
(***************************************************************************)
\* if headers: if not isinstance(headers, dict): raise TypeError
InitRaises(headers) == Truthy(headers) /\ ~IsDict(headers)

\* self._headers = self.headers_default; if headers: self._headers.update(headers)
InitHeaders(h, headers) ==
    IF Truthy(headers)
    THEN [h EXCEPT ![ClassDict] = Update(@, headers.dict)]
    ELSE h

New(c, url_start, headers) ==
    /\ running = "none"
    /\ c \notin constructed
    /\ IF InitRaises(headers)
       THEN /\ last' = [op |-> "new", c |-> c, raised |-> TRUE, arg |-> headers]
            /\ UNCHANGED <<constructed, _url_start, _headers, heap, _tasks, _method,
                           ctorArg, _session>>
       ELSE /\ constructed' = constructed \cup {c}
            /\ _url_start' = [_url_start EXCEPT ![c] = url_start]
            /\ _headers' = [_headers EXCEPT ![c] = ClassDict]
            /\ heap' = InitHeaders(heap, headers)
            /\ _tasks' = [_tasks EXCEPT ![c] = <<>>]
            /\ _method' = [_method EXCEPT ![c] = "None"]
            /\ ctorArg' = [ctorArg EXCEPT ![c] = headers]
            /\ last' = [op |-> "new", c |-> c, raised |-> FALSE, arg |-> headers]
            /\ _session' = [_session EXCEPT ![c] = "open"]
    /\ UNCHANGED <<running, calls, order, nextId, heap0, dispatched, held,
                   releases, issued>>

(***************************************************************************)
(* client.<attr>(url, params, headers, token): __getattr__ selects the     *)
(* method and returns _add_task, which is called at once.                  *)
(***************************************************************************)
IsMethod(attr) == \E i \in 1..Len(methods) : methods[i] = attr

Enqueue(c, attr, url, params, headers, token) ==
    /\ running = "none"
    /\ c \in constructed
    /\ nextId <= MaxCalls
    /\ IsMethod(attr)
    /\ _method' = [_method EXCEPT ![c] = attr]
    /\ LET r == _add_task(heap, attr, _url_start[c], url, params, headers, token, nextId)
       IN  /\ heap' = r.heap
           /\ _tasks' = [_tasks EXCEPT ![c] = Append(@, r.task)]
    /\ nextId' = nextId + 1
    /\ last' = [op |-> "enqueue", c |-> c]
    /\ UNCHANGED <<constructed, _url_start, _headers, running, calls, order,
                   ctorArg, heap0, dispatched, _session, held, releases, issued>>

(***************************************************************************)
(* The two steps of an enqueue apart: client.<attr> runs __getattr__ and   *)
(* hands back the bound method _add_task; the caller calls it then or      *)
(* later.  The arguments are any Python values.                            *)
(***************************************************************************)
\* self._method = attr before the membership test
getattr_assign_first(method, attr) ==
    IF ~IsMethod(attr) THEN [raise |-> "AttributeError", method |-> attr]
    ELSE [raise |-> "", method |-> attr]

\* __getattr__: the exception it raises ("": none) and self._method after it
__getattr__(method, attr) ==
    IF ~IsMethod(attr) THEN [raise |-> "AttributeError", method |-> method]
    ELSE [raise |-> "", method |-> attr]

GetAttr(c, attr) ==
    /\ running = "none"
    /\ c \in constructed
    /\ LET r == __getattr__(_method[c], attr)
       IN  /\ _method' = [_method EXCEPT ![c] = r.method]
           /\ held' = IF r.raise = "" THEN held \cup {<<c, attr>>} ELSE held
           /\ last' = [op |-> "getattr", c |-> c, attr |-> attr,
                       raised |-> r.raise # "", method |-> _method[c],
                       before |-> _tasks[c]]
    /\ UNCHANGED <<heap, constructed, _url_start, _headers, _tasks, running, calls,
                   order, ctorArg, nextId, heap0, dispatched, _session, releases,
                   issued>>

\* the type checks without the one on token
_add_task_raises_no_token_check(url, params, headers, token) ==
    IF ~IsStr(url) THEN "The arg url must be a str"
    ELSE IF ~IsNone(params) /\ ~IsDict(params) THEN "The arg params must be a dict"
    ELSE IF ~IsNone(headers) /\ ~IsDictArg(headers) THEN "The arg headers must be a dict"
    ELSE ""

\* the type checks of _add_task: the message of the TypeError, "" for none
_add_task_raises(url, params, headers, token) ==
    IF ~IsStr(url) THEN "The arg url must be a str"
    ELSE IF ~IsNone(params) /\ ~IsDict(params) THEN "The arg params must be a dict"
    ELSE IF ~IsNone(headers) /\ ~IsDictArg(headers) THEN "The arg headers must be a dict"
    ELSE IF ~IsNone(token) /\ ~IsStr(token) THEN "The arg token must be a str"
    ELSE ""

\* the call of a function that client.<via> returned
AddTask(c, via, url, params, headers, token) ==
    /\ running = "none"
    /\ c \in constructed
    /\ <<c, via>> \in held
    /\ nextId <= MaxCalls
    /\ LET e == _add_task_raises(url, params, headers, token)
           args == [url |-> url, params |-> params, headers |-> headers, token |-> token]
       IN  IF e # ""
           THEN /\ last' = [op |-> "add_task", c |-> c, via |-> via, args |-> args,
                            raised |-> TRUE, before |-> _tasks[c]]
                /\ UNCHANGED <<heap, _tasks, nextId>>
           ELSE LET r == _add_task(heap, _method[c], _url_start[c], url.chars, params,
                                   headers, token, nextId)
                IN  /\ heap' = r.heap
                    /\ _tasks' = [_tasks EXCEPT ![c] = Append(@, r.task @@ [via |-> via])]
                    /\ nextId' = nextId + 1
                    /\ last' = [op |-> "add_task", c |-> c, via |-> via, args |-> args,
                                raised |-> FALSE, before |-> _tasks[c]]
    /\ UNCHANGED <<constructed, _url_start, _headers, _method, running, calls, order,
                   ctorArg, heap0, dispatched, _session, held, releases, issued>>

(***************************************************************************)
(* result().  With an empty queue the ValueError is raised inside the try  *)
(* statement, whose "except Exception" clause logs it; the function then   *)
(* ends without a return statement.                                        *)
(***************************************************************************)
\* finally: self._tasks = []
TasksKept(tasks) == tasks

TasksAfterResult(tasks) == <<>>

ResultEmpty(c) ==
    /\ running = "none"
    /\ c \in constructed
    /\ Len(_tasks[c]) = 0
    /\ _tasks' = [_tasks EXCEPT ![c] = TasksAfterResult(@)]
    /\ last' = [op |-> "result", c |-> c, batch |-> <<>>, calls |-> <<>>,
                order |-> <<>>, ret |-> PyNone, raised |-> FALSE]
    /\ heap0' = heap
    /\ UNCHANGED <<heap, constructed, _url_start, _headers, _method, running,
                   calls, order, ctorArg, nextId, dispatched, _session, held,
                   releases, issued>>

\* The event loop starts the coroutines in queue order; each runs up to its
\* request, so the request headers are built one coroutine after the other.
RECURSIVE StartAll(_, _, _, _)
StartAll(h, self_headers, tasks, started) ==
    IF Len(started) = Len(tasks) THEN [heap |-> h, calls |-> started]
    ELSE LET t == tasks[Len(started) + 1]
             r == _request_headers(h, self_headers, t.headers)
         IN  StartAll(r.heap, self_headers, tasks,
                      Append(started,
                             [id |-> t.id, state |-> "inflight",
                              req |-> [method |-> t.method, url |-> t.url,
                                       params |-> t.params, headers |-> r.sent]]))

\* the calls whose request goes to the network: a closed session sends none
Requests(session, tasks) ==
    IF session = "closed" THEN <<>> ELSE [i \in 1..Len(tasks) |-> tasks[i].id]

ResultBegin(c) ==
    /\ running = "none"
    /\ c \in constructed
    /\ Len(_tasks[c]) >= 1
    /\ running' = c
    /\ heap0' = heap
    /\ LET r == StartAll(heap, _headers[c], _tasks[c], <<>>)
       IN  /\ heap' = r.heap
           /\ calls' = r.calls
    /\ order' = <<>>
    /\ issued' = issued \o Requests(_session[c], _tasks[c])
    /\ UNCHANGED <<constructed, _url_start, _headers, _tasks, _method, ctorArg,
                   nextId, dispatched, last, _session, held, releases>>

\* coroutine i gets the network's answer and runs to its end
Complete(i, scn) ==
    /\ running # "none"
    /\ i \in 1..Len(calls)
    /\ calls[i].state = "inflight"
    /\ LET r == _request(SessionRequest(_session[running], scn))
       IN  calls' = [calls EXCEPT ![i] =
                        [id |-> @.id, state |-> "done", req |-> @.req, scn |-> scn,
                         raise |-> r.raise, result |-> r.val,
                         bodyRead |-> r.bodyRead, attempts |-> r.attempts]]
    /\ order' = Append(order, i)
    /\ UNCHANGED <<heap, constructed, _url_start, _headers, _tasks, _method,
                   running, ctorArg, nextId, heap0, dispatched, last, _session,
                   held, releases, issued>>

\* the list asyncio.gather hands back, filled in completion order
gather_by_completion(cs, ord) == [i \in 1..Len(cs) |-> cs[ord[i]].result]

\* the list asyncio.gather hands back: the result of the i-th awaitable at i
gather(cs, ord) == [i \in 1..Len(cs) |-> cs[i].result]

Raised(cs) == {i \in 1..Len(cs) : cs[i].state = "done" /\ cs[i].raise # ""}

LoopReturns(cs) == (\A i \in 1..Len(cs) : cs[i].state = "done") \/ Raised(cs) # {}

\* run_until_complete returns when every coroutine has returned, or raises
\* as soon as one has raised; result() logs what is raised and returns None
ResultEnd(c) ==
    /\ running = c
    /\ LoopReturns(calls)
    /\ last' = [op |-> "result", c |-> c,
                batch |-> [i \in 1..Len(_tasks[c]) |-> _tasks[c][i].id],
                calls |-> calls, order |-> order,
                ret |-> IF Raised(calls) # {} THEN PyNone
                        ELSE IF Len(_tasks[c]) = 1 THEN calls[1].result
                        ELSE PyList(gather(calls, order)),
                raised |-> FALSE]
    /\ _tasks' = [_tasks EXCEPT ![c] = TasksAfterResult(@)]
    /\ dispatched' = dispatched \cup {calls[i].id : i \in 1..Len(calls)}
    /\ running' = "none"
    /\ calls' = <<>>
    /\ order' = <<>>
    /\ UNCHANGED <<heap, constructed, _url_start, _headers, _method, ctorArg,
                   nextId, heap0, _session, held, releases, issued>>

(***************************************************************************)
(* close(): the loop runs self._session.close() to its end.  Closing an    *)
(* aiohttp session releases its connector if the session is not closed     *)
(* yet, and does nothing if it is.                                         *)
(***************************************************************************)
session_close(session, n) ==
    [session |-> "closed", releases |-> IF session = "closed" THEN n ELSE n + 1]

Close(c) ==
    /\ running = "none"
    /\ c \in constructed
    /\ LET r == session_close(_session[c], releases[c])
       IN  /\ _session' = [_session EXCEPT ![c] = r.session]
           /\ releases' = [releases EXCEPT ![c] = r.releases]
    /\ last' = [op |-> "close", c |-> c, raised |-> FALSE, was |-> _session[c]]
    /\ UNCHANGED <<heap, constructed, _url_start, _headers, _tasks, _method, running,
                   calls, order, ctorArg, nextId, heap0, dispatched, held, issued>>

(***************************************************************************)
(* The inputs.                                                             *)
(***************************************************************************)
BaseUrl == <<"h", ":", "/", "/", "x", "/", "a", "p", "i", "/">>
Path == <<"/", "f", "o", "o", "/">>

Body_a1 == <<123, 34, 97, 34, 58, 49, 125>>
Body_hi == <<104, 105>>
Body_bad == <<255>>

Response(status, content_type, charset, body) ==
    [status |-> status, content_type |-> content_type, charset |-> charset, body |-> body]

Contents ==
    { Response(200, "application/json", PyNone, Body_a1),
      Response(200, "text/plain", PyStr("utf-8"), Body_hi),
      Response(200, "application/octet-stream", PyNone, Body_bad),
      Response(200, "application/json", PyNone, Body_bad) }

Statuses == {199, 200, 299, 300, 404}

WithStatus(r, status) == Response(status, r.content_type, r.charset, r.body)

OkResponse == Response(200, "application/json", PyNone, Body_a1)

Answer(r) == [fails |-> 0, exc |-> FALSE, response |-> r]

\* what the network does in the dispatch specification: every status with a
\* JSON body, every kind of body with status 200, an exception that is no
\* transport failure, and retry-1 or retry transport failures before a 200
Scenarios ==
    { Answer(WithStatus(OkResponse, s)) : s \in Statuses }
    \cup { Answer(r) : r \in Contents }
    \cup { [fails |-> 0, exc |-> TRUE, response |-> OkResponse] }
    \cup { [fails |-> n, exc |-> FALSE, response |-> OkResponse] : n \in {retry - 1, retry} }

(***************************************************************************)
(* Spec: one client, calls without headers, every scenario.                *)
(***************************************************************************)
Next ==
    \/ New("c1", BaseUrl, PyNone)
    \/ Enqueue("c1", "get", Path, PyNone, NoHeaders, PyNone)
    \/ ResultEmpty("c1")
    \/ ResultBegin("c1")
    \/ \E i \in 1..MaxCalls, scn \in Scenarios : Complete(i, scn)
    \/ ResultEnd("c1")

Spec == Init /\ [][Next]_vars

(***************************************************************************)
(* SpecHeaders: two clients, constructed with and without headers; the     *)
(* first one queues calls with and without headers and tokens; the server  *)
(* answers every request, in the order of the requests.                    *)
(***************************************************************************)
CtorHeaders ==
    { PyNone,
      PyDict([k \in {"User-Agent", "X-C"} |-> IF k = "X-C" THEN "c" ELSE "ua-1"]) }

HeaderArgs == {NoHeaders} \cup {RefHeaders(d) : d \in CallerDicts}

Tokens == {PyNone, PyStr(""), PyStr("t1"), PyStr("t2")}

NextHeaders ==
    \/ \E c \in Clients, headers \in CtorHeaders : New(c, BaseUrl, headers)
    \/ \E headers \in HeaderArgs, token \in Tokens :
          Enqueue("c1", "get", Path, PyNone, headers, token)
    \/ ResultEmpty("c1")
    \/ ResultBegin("c1")
    \/ Complete(Len(order) + 1, Answer(OkResponse))
    \/ ResultEnd("c1")

SpecHeaders == Init /\ [][NextHeaders]_vars

(***************************************************************************)
(* The statements about the dispatcher and the executor, checked under     *)
(* Spec.                                                                   *)
(***************************************************************************)
\* the finished coroutines: of the running result() and of the last one
DoneCalls ==
    {calls[i] : i \in {j \in 1..Len(calls) : calls[j].state = "done"}}
    \cup (IF last.op = "result" THEN {last.calls[i] : i \in 1..Len(last.calls)} ELSE {})

\* the server answered and the status is 2xx
Answered2xx(scn) ==
    scn.fails = 0 /\ ~scn.exc /\ scn.response.status >= 200 /\ scn.response.status <= 299

Decoded(scn) == _get_content(scn.response, scn.response.body)

\* the call fails: transport error, exception, non-2xx status, or a body
\* the decoder raises on
Failing(scn) == ~Answered2xx(scn) \/ "exc" \in DOMAIN Decoded(scn)

\* the result of the i-th call as the caller of the last result() holds it
ResultAt(i) == IF Len(last.batch) = 1 THEN last.ret ELSE last.ret.list[i]

\* C1: a batch of N >= 2 calls returns a list of exactly N results, the i-th
\* being the outcome of the i-th enqueued call, whatever the order in which
\* the requests completed.
C1_OrderedResults ==
    (last.op = "result" /\ Len(last.batch) >= 2) =>
        /\ IsList(last.ret)
        /\ Len(last.ret.list) = Len(last.batch)
        /\ \A i \in 1..Len(last.batch) :
              /\ last.calls[i].id = last.batch[i]
              /\ last.calls[i].state = "done"
              /\ last.ret.list[i] = last.calls[i].result

\* a batch of two whose second call completed first, with different outcomes
C1_Witness ==
    /\ last.op = "result"
    /\ Len(last.batch) >= 2
    /\ last.order[1] = 2
    /\ IsList(last.ret)
    /\ last.ret.list[1] # last.ret.list[2]
    /\ last.ret.list[2] = last.calls[last.order[1]].result

\* C2: in a batch where some calls fail, every failing call gives an error
\* Result at its own position, every other call gives its own payload, and
\* no exception leaves a coroutine or result().
C2_PartialFailure ==
    /\ \A i \in 1..Len(calls) : calls[i].state = "done" => calls[i].raise = ""
    /\ (last.op = "result" /\ Len(last.batch) >= 1) =>
          /\ ~last.raised
          /\ Len(last.batch) >= 2 => IsList(last.ret) /\ Len(last.ret.list) = Len(last.batch)
          /\ \A i \in 1..Len(last.batch) :
                /\ last.calls[i].state = "done"
                /\ last.calls[i].raise = ""
                /\ Failing(last.calls[i].scn) => IsErrorResult(ResultAt(i))
                /\ ~Failing(last.calls[i].scn) => ResultAt(i) = Decoded(last.calls[i].scn).ok

\* a batch of three: a transport failure, then a payload, then an exception
\* that is no transport failure
C2_Witness ==
    /\ last.op = "result"
    /\ Len(last.batch) = 3
    /\ last.calls[1].scn.fails > 0
    /\ ~Failing(last.calls[2].scn)
    /\ last.calls[3].scn.exc
    /\ last.order[1] = 3
    /\ IsList(last.ret)
    /\ last.ret.list[2] = PyDict([a |-> 1])

\* C3: a call whose transport fails retry-1 times and then succeeds gives
\* the decoded payload; only a call that fails retry times gives an error
\* Result; no call is attempted more than retry times.
C3_RetryRecovers ==
    \A c \in DoneCalls :
        /\ c.attempts <= retry
        /\ (c.scn.fails = retry - 1 /\ ~c.scn.exc /\ c.scn.response = OkResponse)
              => c.result = PyDict([a |-> 1])
        /\ c.scn.fails >= retry => IsErrorResult(c.result)

\* C4: result() on an empty queue fails with an error the caller observes
\* (not a normal return), and dispatches nothing.
C4_EmptyQueueFails ==
    (last.op = "result" /\ last.batch = <<>>) => (last.raised /\ last.calls = <<>>)

\* C5: once result() has completed, with results or not, the queue is
\* empty, and no call whose request an earlier result() issued is ever in
\* a later batch.
C5_QueueCleared ==
    /\ last.op = "result" => _tasks[last.c] = <<>>
    /\ \A i \in 1..Len(calls) : calls[i].id \notin dispatched
    /\ last.op = "result" =>
          \A i \in 1..Len(last.batch) :
              \A c \in Clients : \A j \in 1..Len(_tasks[c]) : _tasks[c][j].id # last.batch[i]

\* the second batch of a client has returned: its calls are not those of
\* the first
C5_Witness ==
    /\ last.op = "result"
    /\ Len(last.batch) >= 1
    /\ \E id \in dispatched : \A i \in 1..Len(last.batch) : last.batch[i] > id

\* C6: result() always returns a sequence of results, a one-element
\* sequence when one call is queued.
C6_AlwaysSequence ==
    (last.op = "result" /\ Len(last.batch) >= 1) =>
        (IsList(last.ret) /\ Len(last.ret.list) = Len(last.batch))

\* C7: an answer with status s < 200 or s > 299 gives exactly
\* {error: "Response status s"} and its body is not read; with
\* 200 <= s <= 299 the body is read and given to the decoder.  199 and 300
\* give the error, 200 and 299 the decoded payload.
C7_StatusPolicy ==
    \A c \in DoneCalls :
        (c.scn.fails = 0 /\ ~c.scn.exc) =>
            LET s == c.scn.response.status
            IN  /\ (s < 200 \/ s > 299) =>
                      /\ c.result = ErrorResult("Response status " \o ToString(s))
                      /\ ~c.bodyRead
                /\ (s >= 200 /\ s <= 299) =>
                      /\ c.bodyRead
                      /\ c.result = IF "exc" \in DOMAIN Decoded(c.scn)
                                    THEN ErrorResult(Decoded(c.scn).exc)
                                    ELSE Decoded(c.scn).ok
                /\ s = 199 => c.result = PyDict([error |-> "Response status 199"])
                /\ s = 300 => c.result = PyDict([error |-> "Response status 300"])
                /\ s = 404 => c.result = PyDict([error |-> "Response status 404"])
                /\ (s \in {200, 299} /\ c.scn.response.body = Body_a1
                        /\ c.scn.response.content_type = "application/json")
                      => c.result = PyDict([a |-> 1])

\* one batch with the answers 199, 299 and 300
C7_Witness ==
    /\ last.op = "result"
    /\ Len(last.batch) = 3
    /\ last.calls[1].scn = Answer(WithStatus(OkResponse, 199))
    /\ last.calls[2].scn = Answer(WithStatus(OkResponse, 299))
    /\ last.calls[3].scn = Answer(WithStatus(OkResponse, 300))
    /\ last.ret = PyList(<<ErrorResult("Response status 199"), PyDict([a |-> 1]),
                           ErrorResult("Response status 300")>>)

(***************************************************************************)
(* The statements about headers, checked under SpecHeaders.                *)
(***************************************************************************)
\* the default headers of client c
DefaultsOf(c) == heap[_headers[c]]

\* C8: the request of a call enqueued with a token t carries
\* Authorization: Bearer t and every other header passed for that call,
\* also when several calls are given the same headers dict.
C8_TokenHeader ==
    running # "none" =>
        \A i \in 1..Len(calls) :
            LET t == _tasks[running][i]
                sent == calls[i].req.headers
            IN  (~IsNone(t.token) /\ t.token.str # "") =>
                    /\ "Authorization" \in DOMAIN sent
                    /\ sent["Authorization"] = "Bearer " \o t.token.str
                    /\ \A k \in (DOMAIN t.passed) \ {"Authorization"} :
                          k \in DOMAIN sent /\ sent[k] = t.passed[k]

\* C9: the default headers of a client are the class defaults with the
\* headers that client was constructed with, whatever other clients were
\* constructed before or after it.
C9_PrivateDefaults ==
    \A c \in constructed :
        DefaultsOf(c) = IF IsNone(ctorArg[c]) THEN headers_default
                        ELSE Update(headers_default, ctorArg[c].dict)

Args(url, params, headers, token) ==
    [url |-> url, params |-> params, headers |-> headers, token |-> token]

ValidArgs ==
    { Args(PyChars(Path), PyDict(EmptyDict), RefHeaders("d1"), PyStr("t1")),
      Args(PyChars(<<>>), PyNone, NoHeaders, PyNone) }

\* one argument of the wrong type, the others present and of the right type
InvalidArgs ==
    { Args(url, PyDict(EmptyDict), RefHeaders("d1"), PyStr("t1")) :
          url \in {PyInt(5)} }
    \cup { Args(PyChars(Path), params, RefHeaders("d1"), PyStr("t1")) :
          params \in {PyList(<<>>), PyStr("q")} }
    \cup { Args(PyChars(Path), PyDict(EmptyDict), headers, PyStr("t1")) :
          headers \in {PyStr("h")} }
    \cup { Args(PyChars(Path), PyDict(EmptyDict), RefHeaders("d1"), token) :
          token \in {PyInt(7)} }

AttrNames == {"get", "post", "head"}

NextAccessors ==
    \/ New("c1", BaseUrl, PyNone)
    \/ \E attr \in AttrNames : GetAttr("c1", attr)
    \/ \E via \in AttrNames, a \in ValidArgs \cup InvalidArgs :
          AddTask("c1", via, a.url, a.params, a.headers, a.token)
    \/ ResultEmpty("c1")
    \/ ResultBegin("c1")
    \/ Complete(Len(order) + 1, Answer(OkResponse))
    \/ ResultEnd("c1")

SpecAccessors == Init /\ [][NextAccessors]_vars

\* C11: an enqueue call with a path that is no string, with params or
\* headers that are given and no mapping, or with a token that is given and
\* no string raises, and the queue is as it was before the call.
C11_ValidationRaises ==
    last.op = "add_task" =>
        LET a == last.args
            bad == \/ DOMAIN a.url \notin {{"str"}, {"chars"}}
                   \/ DOMAIN a.params \notin {{"none"}, {"dict"}}
                   \/ DOMAIN a.headers \notin {{"none"}, {"dict"}, {"ref"}}
                   \/ DOMAIN a.token \notin {{"none"}, {"str"}, {"chars"}}
        IN  bad => (last.raised /\ _tasks[last.c] = last.before)

\* a call with a token that is no string was refused while another call
\* was queued, and that call is still queued
C11_Witness ==
    /\ last.op = "add_task"
    /\ last.args.token = PyInt(7)
    /\ last.raised
    /\ Len(last.before) = 1
    /\ _tasks[last.c] = last.before

\* C12: an enqueue call whose path is the empty string raises and appends
\* nothing.
C12_EmptyPathRejected ==
    (last.op = "add_task" /\ last.args.url = PyChars(<<>>)) =>
        (last.raised /\ _tasks[last.c] = last.before)

\* C13: getting an attribute whose name is none of get, post, put, patch,
\* delete raises at once, and the queue and the selected method are as
\* they were.
C13_UnknownMethodRaises ==
    (last.op = "getattr" /\ last.attr \notin {"get", "post", "put", "patch", "delete"}) =>
        /\ last.raised
        /\ _method[last.c] = last.method
        /\ _tasks[last.c] = last.before
        /\ <<last.c, last.attr>> \notin held

\* client.head was refused after client.post had selected a method and a
\* call was queued
C13_Witness ==
    /\ last.op = "getattr"
    /\ last.attr = "head"
    /\ last.raised
    /\ _method[last.c] = "post"
    /\ Len(_tasks[last.c]) = 1

\* C17: every queued call has the method of the accessor it was enqueued
\* through, whatever accessors were got between getting that accessor and
\* calling it.
C17_MethodOfAccessor ==
    \A c \in Clients : \A i \in 1..Len(_tasks[c]) :
        "via" \in DOMAIN _tasks[c][i] =>
            /\ _tasks[c][i].method = _tasks[c][i].via
            /\ (running = c /\ i <= Len(calls)) => calls[i].req.method = _tasks[c][i].via

(***************************************************************************)
(* SpecSession: one client that queues calls, runs them and closes its     *)
(* session, in any order and any number of times.                          *)
(***************************************************************************)
NextSession ==
    \/ New("c1", BaseUrl, PyNone)
    \/ Enqueue("c1", "get", Path, PyNone, NoHeaders, PyNone)
    \/ Close("c1")
    \/ ResultEmpty("c1")
    \/ ResultBegin("c1")
    \/ \E i \in 1..MaxCalls, s \in {200, 404} : Complete(i, Answer(WithStatus(OkResponse, s)))
    \/ ResultEnd("c1")

SpecSession == Init /\ [][NextSession]_vars

\* the number of HTTP requests issued for call id
IssuedFor(id) == Cardinality({k \in 1..Len(issued) : issued[k] = id})

\* C14: a call that result() dispatches after close() gives an error and no
\* HTTP request is issued for it; whatever the sequence of operations, the
\* session's connector is released at most once.
C14_SessionLifecycle ==
    /\ \A c \in Clients : releases[c] <= 1
    /\ \A c \in Clients : _session[c] = "closed" => releases[c] = 1
    /\ (running # "none" /\ _session[running] = "closed") =>
          \A i \in 1..Len(calls) :
              /\ IssuedFor(calls[i].id) = 0
              /\ calls[i].state = "done" => calls[i].result = ErrorResult("Session is closed")
    /\ (last.op = "result" /\ _session[last.c] = "closed") =>
          \A i \in 1..Len(last.calls) :
              /\ IssuedFor(last.calls[i].id) = 0
              /\ last.calls[i].result = ErrorResult("Session is closed")

\* result() returned a batch of two calls that were dispatched after close()
C14_Witness ==
    /\ last.op = "result"
    /\ _session[last.c] = "closed"
    /\ Len(last.batch) = 2
    /\ last.ret = PyList(<<ErrorResult("Session is closed"), ErrorResult("Session is closed")>>)
    /\ releases[last.c] = 1

(***************************************************************************)
(* SpecConstruct: two clients constructed with headers arguments of every  *)
(* kind; each queues calls without headers and runs them.                  *)
(***************************************************************************)
CtorArgs ==
    { PyNone,
      PyDict([k \in {"X-C"} |-> "c"]),
      PyDict(EmptyDict),
      PyList(<<>>),
      PyStr(""),
      PyInt(0),
      PyList(<<PyInt(1)>>),
      PyStr("h") }

NextConstruct ==
    \/ \E c \in Clients, headers \in CtorArgs : New(c, BaseUrl, headers)
    \/ \E c \in Clients : Enqueue(c, "get", Path, PyNone, NoHeaders, PyNone)
    \/ \E c \in Clients : ResultEmpty(c)
    \/ \E c \in Clients : ResultBegin(c)
    \/ Complete(Len(order) + 1, Answer(OkResponse))
    \/ \E c \in Clients : ResultEnd(c)

SpecConstruct == Init /\ [][NextConstruct]_vars

\* C15: constructing a client with a headers argument that is no mapping
\* fails, whatever the value: also for an empty list or an empty string.
C15_NonMappingRejected ==
    (last.op = "new" /\ DOMAIN last.arg \notin {{"none"}, {"dict"}}) =>
        (last.raised /\ last.c \notin constructed)

(***************************************************************************)
(* SpecDecoder: _get_content applied to one response, drawn from every     *)
(* content type, charset and body of the model.                            *)
(***************************************************************************)
Body_obj == <<123, 125>>

DecoderInputs ==
    { Response(200, ct, cs, b) :
        ct \in {"application/json", "text/html", "text/plain",
                "application/octet-stream", "image/png"},
        cs \in {PyNone, PyStr("utf-8"), PyStr("latin-1"), PyStr("bogus")},
        b \in {<<>>, Body_obj, Body_a1, Body_hi, Body_bad} }

InitDecoder == \E r \in DecoderInputs : InitWith([op |-> "input", response |-> r])

Decode ==
    /\ last.op = "input"
    /\ "response" \in DOMAIN last
    /\ last' = [op |-> "decode", response |-> last.response,
                out |-> _get_content(last.response, last.response.body)]
    /\ UNCHANGED <<heap, constructed, _url_start, _headers, _tasks, _method, running,
                   calls, order, ctorArg, nextId, heap0, dispatched, _session, held,
                   releases, issued>>

NextDecoder == Decode

SpecDecoder == InitDecoder /\ [][NextDecoder]_vars

\* C16: application/json gives the parsed JSON value of a body that is not
\* empty and the empty mapping of an empty body; text/html and text/plain
\* give the body as text in the declared charset, UTF-8 when none is
\* declared; every other content type gives the bytes as they are.
C16_DecoderByContentType ==
    last.op = "decode" =>
        LET r == last.response
            out == last.out
            declared == IF r.charset = PyNone THEN "utf-8" ELSE r.charset.str
            ascii == \A i \in 1..Len(r.body) : r.body[i] < 128
        IN  /\ (r.content_type = "application/json" /\ r.body = <<>>)
                  => out = [ok |-> [dict |-> <<>>]]
            /\ (r.content_type = "application/json" /\ declared \in {"utf-8", "latin-1"})
                  => /\ r.body = Body_a1 => out = [ok |-> [dict |-> [a |-> 1]]]
                     /\ r.body = Body_obj => out = [ok |-> [dict |-> <<>>]]
            /\ (r.content_type \in {"text/html", "text/plain"}
                   /\ (declared = "latin-1" \/ (declared = "utf-8" /\ ascii)))
                  => out = [ok |-> [text |-> r.body]]
            /\ r.content_type \notin {"application/json", "text/html", "text/plain"}
                  => out = [ok |-> [bytes |-> r.body]]

\* an HTML body with a byte that is text in latin-1 only, declared latin-1
C16_Witness ==
    /\ last.op = "decode"
    /\ last.response = Response(200, "text/html", PyStr("latin-1"), Body_bad)
    /\ last.out = [ok |-> [text |-> <<255>>]]

(***************************************************************************)
(* SpecDecodeFailure: one client whose requests are all answered 200,      *)
(* with bodies the decoder accepts and bodies it raises on.                *)
(***************************************************************************)
MalformedJson == Response(200, "application/json", PyNone, Body_hi)
InvalidCharset == Response(200, "text/plain", PyStr("bogus"), Body_hi)
UndecodableText == Response(200, "text/html", PyNone, Body_bad)

DecodeScenarios ==
    {Answer(r) : r \in {OkResponse, MalformedJson, InvalidCharset, UndecodableText}}

NextDecodeFailure ==
    \/ New("c1", BaseUrl, PyNone)
    \/ Enqueue("c1", "get", Path, PyNone, NoHeaders, PyNone)
    \/ ResultEmpty("c1")
    \/ ResultBegin("c1")
    \/ \E i \in 1..MaxCalls, scn \in DecodeScenarios : Complete(i, scn)
    \/ ResultEnd("c1")

SpecDecodeFailure == Init /\ [][NextDecodeFailure]_vars

DecoderRaises(scn) == Answered2xx(scn) /\ "exc" \in DOMAIN Decoded(scn)

\* C19: when the decoder raises on a 2xx response (malformed JSON, unknown
\* charset) the exception stays inside the coroutine: that call's Result
\* is an error Result and the other calls of the batch give their payloads.
C19_DecodeFailureContained ==
    /\ \A c \in DoneCalls :
          DecoderRaises(c.scn) =>
              (c.raise = "" /\ c.result = PyDict([error |-> Decoded(c.scn).exc]))
    /\ last.op = "result" =>
          /\ ~last.raised
          /\ Len(last.batch) >= 1 => ~IsNone(last.ret)
          /\ \A i \in 1..Len(last.batch) :
                IF DecoderRaises(last.calls[i].scn)
                THEN DOMAIN ResultAt(i).dict = {"error"}
                ELSE ResultAt(i) = PyDict([a |-> 1])

\* malformed JSON, then a good body, then an unknown charset, in one batch
C19_Witness ==
    /\ last.op = "result"
    /\ Len(last.batch) = 3
    /\ last.calls[1].scn = Answer(MalformedJson)
    /\ last.calls[2].scn = Answer(OkResponse)
    /\ last.calls[3].scn = Answer(InvalidCharset)
    /\ last.ret = PyList(<<ErrorResult("JSONDecodeError"), PyDict([a |-> 1]),
                           ErrorResult("LookupError")>>)

(***************************************************************************)
(* SpecUrl: _url_builder applied to one base URL and one path, drawn from  *)
(* the strings of up to MaxUrlLen characters and the documented example.   *)
(***************************************************************************)
MaxUrlLen == 3

UrlAlphabet == {"/", "a", "b"}

UrlStrings == UNION {[1..k -> UrlAlphabet] : k \in 0..MaxUrlLen}

UrlInputs ==
    {[base |-> b, path |-> p] : b \in UrlStrings, p \in UrlStrings}
    \cup {[base |-> BaseUrl, path |-> Path]}

InitUrl == \E u \in UrlInputs : InitWith([op |-> "input", base |-> u.base, path |-> u.path])

BuildUrl ==
    /\ last.op = "input"
    /\ "base" \in DOMAIN last
    /\ last' = [op |-> "url", base |-> last.base, path |-> last.path,
                out |-> _url_builder(last.base, last.path)]
    /\ UNCHANGED <<heap, constructed, _url_start, _headers, _tasks, _method, running,
                   calls, order, ctorArg, nextId, heap0, dispatched, _session, held,
                   releases, issued>>

NextUrl == BuildUrl

SpecUrl == InitUrl /\ [][NextUrl]_vars

AllSlashes(s) == \A i \in 1..Len(s) : s[i] = "/"

\* C20: the URL is the base URL without its trailing slashes, one slash, and
\* the path without its leading slashes; the base ends and the path starts
\* with no slash where they are joined, and the rest of both is unchanged.
\* "h://x/api/" and "/foo/" give "h://x/api/foo/".
C20_UrlJoin ==
    last.op = "url" =>
        /\ \E i \in 0..Len(last.base), j \in 0..Len(last.path) :
              LET B == SubSeq(last.base, 1, i)
                  P == SubSeq(last.path, j + 1, Len(last.path))
              IN  /\ last.out = B \o <<"/">> \o P
                  /\ AllSlashes(SubSeq(last.base, i + 1, Len(last.base)))
                  /\ AllSlashes(SubSeq(last.path, 1, j))
                  /\ B = <<>> \/ B[Len(B)] # "/"
                  /\ P = <<>> \/ P[1] # "/"
        /\ (last.base = BaseUrl /\ last.path = Path) =>
              last.out = <<"h", ":", "/", "/", "x", "/", "a", "p", "i", "/", "f", "o", "o", "/">>

\* the documented example
C20_Witness ==
    /\ last.op = "url"
    /\ last.base = BaseUrl
    /\ last.path = Path
    /\ last.out = <<"h", ":", "/", "/", "x", "/", "a", "p", "i", "/", "f", "o", "o", "/">>

(***************************************************************************)
(* The statement about laziness, checked under Spec.                       *)
(***************************************************************************)
\* C18: an enqueue call issues no HTTP request; the request of a queued call
\* is issued by the next result() of its client, and at most once over the
\* client's lifetime.
C18_LazyEnqueue ==
    /\ \A c \in Clients : running # c =>
          \A i \in 1..Len(_tasks[c]) : IssuedFor(_tasks[c][i].id) = 0
    /\ running # "none" =>
          /\ Len(calls) = Len(_tasks[running])
          /\ \A i \in 1..Len(calls) :
                calls[i].id = _tasks[running][i].id /\ IssuedFor(calls[i].id) = 1
    /\ \A id \in 1..MaxCalls + 1 :
          /\ IssuedFor(id) <= 1
          /\ IssuedFor(id) = 1 =>
                (id \in dispatched \/ \E i \in 1..Len(calls) : calls[i].id = id)

\* a call was enqueued after a batch was run: its request is not yet issued,
\* those of the batch were issued once
C18_Witness ==
    /\ last.op = "enqueue"
    /\ Len(_tasks[last.c]) = 1
    /\ IssuedFor(_tasks[last.c][1].id) = 0
    /\ Cardinality(dispatched) = 2
    /\ \A id \in dispatched : IssuedFor(id) = 1

====
